---- MODULE Spec2Model ----
(***************************************************************************)
(* The retrieval-and-reranking pipeline of the job-description server:     *)
(*   mcp_server/main.py          search_and_generate                       *)
(*   mcp_server/api.py           search_and_generate_tool                  *)
(*   mcp_server/lib/embeddings.py  embed                                   *)
(*   mcp_server/lib/supabase.py  search_similar_job_descriptions,          *)
(*                               search_with_reranking,                    *)
(*                               search_large_corpus_with_reranking        *)
(*   mcp_server/lib/rerank.py    CohereReranker, rerank_job_descriptions   *)
(*                                                                         *)
(* One run of one entry point is modelled as a sequence of steps, one per  *)
(* external call (embedding, vector store, reranker construction, one      *)
(* reranker request per batch).  The external services are nondeterministic*)
(* : each call draws its outcome from a small set that contains the        *)
(* documented behaviour, the failures and malformed responses.             *)
(*                                                                         *)
(* Scaling.  The sizes 1000 (MAX_BATCH_SIZE and the pre-filter cap of      *)
(* rerank_job_descriptions) and 10 (the per-batch floor) are scaled to 3   *)
(* and 2 so that both the single-batch and the multi-batch path, and the   *)
(* per-batch truncation (per_batch_top_k < batch size), occur on candidate *)
(* lists of at most MaxDocs documents.  The order 10 < 1000 is kept.       *)
(* Scores are small naturals standing for the floats of the code.  The     *)
(* embedding dimension 1536 is scaled to 2 and the text limit 32000 to 8.  *)
(*                                                                         *)
(* Specifications.  Spec is one invocation.  SpecTwice adds Restart: a     *)
(* second invocation with the same arguments against services that answer  *)
(* as before.  SpecText follows the text of a request from the caller to   *)
(* the embedding request and to the query of the reranker, over all short *)
(* titles, departments and requirement lists.  SpecTruncate follows the    *)
(* content of a document through truncate_document into a reranker         *)
(* request.  SpecLive is Spec with weak fairness of the steps that follow  *)
(* an await.                                                               *)
(***************************************************************************)
EXTENDS Integers, Sequences, FiniteSets, TLC

\* ---------------------------------------------------------------- bounds
MaxDocs == 4      \* longest candidate list a caller or the store supplies
MaxFinal == 2     \* final_count / final_top_k range over 1..MaxFinal
MaxTextLen == 2   \* longest title and department, in characters
MaxReqs == 2      \* longest requirements list
MaxContentLen == 5  \* longest document content, in characters

\* Similarity values of the store's records, and the relevance scores the
\* provider reports (0 is also what a missing 'cohere_score' sorts as).
Similarities == {1, 2}
Scores == {0, 1}

\* ------------------------------------------------------ program constants
MAX_BATCH_SIZE == 3        \* rerank.py:30   (1000, scaled)
PRE_FILTER_CAP == 3        \* rerank.py:226  (1000, scaled)
PER_BATCH_FLOOR == 2       \* rerank.py:127  (10, scaled)
MAIN_FINAL_COUNT == 5      \* main.py:45
MAIN_MATCH_COUNT == 5      \* main.py:49
TOOL_MATCH_COUNT == 5      \* api.py:115
EMBEDDING_DIM == 2         \* embeddings.py:51  (1536, scaled)
MAX_TEXT_CHARS == 8        \* embeddings.py:13  (32000, scaled)
MAX_DOC_LENGTH == 2        \* rerank.py:31  (512, scaled)
DEFAULT_INITIAL_RETRIEVAL == 10   \* supabase.py:55
LARGE_THRESHOLD == 15000   \* supabase.py:132
MEDIUM_THRESHOLD == 5000   \* supabase.py:134
LARGE_COUNT == 1500        \* supabase.py:133
MEDIUM_COUNT == 800        \* supabase.py:135
SMALL_COUNT == 500         \* supabase.py:137

\* Absent dictionary key ('cohere_score' / 'rerank_position' not set).
NoVal == 0 - 1

Min(a, b) == IF a <= b THEN a ELSE b
Max(a, b) == IF a >= b THEN a ELSE b

\* ------------------------------------------------------------ candidates
\* A record of the vector store: id, similarity; the rerank keys are absent.
Doc(i, sim) ==
  [id |-> i, similarity |-> sim, content |-> "text",
   cohere_score |-> NoVal, rerank_position |-> NoVal]

\* The 'content' of a record: a string, absent, or null.
Contents == {"text", "missing", "null"}

\* Candidate lists of length n whose ids are their positions.
DocListsOfLen(n) ==
  { [i \in 1..n |-> Doc(i, f[i])] : f \in [1..n -> Similarities] }

DocLists == UNION { DocListsOfLen(n) : n \in 0..MaxDocs }

SortedBySimilarity(s) ==
  \A i \in 1..Len(s) : \A j \in 1..Len(s) : i < j => s[i].similarity >= s[j].similarity

\* What the match_jobs RPC hands back for match_count: at most match_count
\* records ordered by descending similarity.
CompleteStoreData(match_count) ==
  { s \in DocLists : Len(s) >= 1 /\ Len(s) <= match_count /\ SortedBySimilarity(s) }

\* The store validates nothing either: one of the records may come without
\* its content or with a null content.
StoreData(match_count) ==
  CompleteStoreData(match_count)
    \cup UNION { { [s EXCEPT ![i].content = c] :
                     i \in {1, Len(s)}, c \in Contents } :
                 s \in CompleteStoreData(match_count) }

\* Python's s[:k] for k >= 0.
Take(s, k) == SubSeq(s, 1, Min(k, Len(s)))

\* Python's sorted(s, key=..., reverse=True): descending and stable.
\* keys[i] is the key of s[i].
StableSortDesc(s, keys) ==
  LET n == Len(s)
      pos(i) == Cardinality({ j \in 1..n : keys[j] > keys[i] \/ (keys[j] = keys[i] /\ j < i) }) + 1
  IN  [p \in 1..n |-> s[CHOOSE i \in 1..n : pos(i) = p]]

\* x.get('similarity', 0)
SimilarityKey(c) == c.similarity

\* x.get('cohere_score', 0)
ScoreKey(c) == IF c.cohere_score = NoVal THEN 0 ELSE c.cohere_score

SortBySimilarityDesc(s) == StableSortDesc(s, [i \in 1..Len(s) |-> SimilarityKey(s[i])])

SortByScoreDesc(s) == StableSortDesc(s, [i \in 1..Len(s) |-> ScoreKey(s[i])])

\* ------------------------------------------------------ adaptive pre-filter
\* The pre-filter count with both comparisons strict.
pre_filter_count_strict(corpus_size) ==
  IF corpus_size > LARGE_THRESHOLD THEN LARGE_COUNT
  ELSE IF corpus_size > MEDIUM_THRESHOLD THEN MEDIUM_COUNT
  ELSE SMALL_COUNT

pre_filter_count(corpus_size) ==
  IF corpus_size >= LARGE_THRESHOLD THEN LARGE_COUNT
  ELSE IF corpus_size >= MEDIUM_THRESHOLD THEN MEDIUM_COUNT
  ELSE SMALL_COUNT

CorpusSizes == {0, 100, 4999, 5000, 7000, 14999, 15000, 20000}

\* ------------------------------------------------------------ vector store
\* Outcome of supabase.rpc('match_jobs', ...).execute(): it raises, its data
\* is None/empty, or it is a list of records.
StoreOutcomes(match_count) ==
  {[kind |-> "raise", data |-> <<>>], [kind |-> "empty", data |-> <<>>]}
    \cup { [kind |-> "data", data |-> d] : d \in StoreData(match_count) }

\* search_similar_job_descriptions without its except branch.
search_similar_job_descriptions_no_except(out) ==
  IF out.kind = "raise" THEN [exc |-> TRUE, val |-> <<>>]
  ELSE [exc |-> FALSE, val |-> IF out.data # <<>> THEN out.data ELSE <<>>]

\* search_similar_job_descriptions whose except branch falls back to a
\* direct table query (as search_similar_faq_docs does) instead of [].
search_similar_job_descriptions_table_fallback(out) ==
  IF out.kind = "raise" THEN [exc |-> FALSE, val |-> <<Doc(1, 1)>>]
  ELSE [exc |-> FALSE, val |-> IF out.data # <<>> THEN out.data ELSE <<>>]

\* search_similar_job_descriptions: [exc, val]; exc is an escaping exception.
search_similar_job_descriptions(out) ==
  IF out.kind = "raise" THEN [exc |-> FALSE, val |-> <<>>]
  ELSE [exc |-> FALSE, val |-> IF out.data # <<>> THEN out.data ELSE <<>>]

\* -------------------------------------------------------------- embedding
\* The kinds of JSON value an element of the returned embedding can have.
JsonKinds == {"number", "bool", "string"}

\* Lists one short of, equal to and one over the expected dimension.
EmbeddingLists ==
  UNION { [1..n -> JsonKinds] :
            n \in {EMBEDDING_DIM - 1, EMBEDDING_DIM, EMBEDDING_DIM + 1} }

\* What embed() can meet: no API key, a failed request, a response of the
\* wrong shape, or a response whose data[0]["embedding"] is a list.
EmbedOutcomes ==
  { [kind |-> k, embedding |-> <<>>] :
      k \in {"no_api_key", "connection_error", "timeout", "http_error",
             "not_json", "not_dict", "no_data", "empty_data", "no_embedding",
             "not_list"} }
    \cup { [kind |-> "list", embedding |-> e] : e \in EmbeddingLists }

\* isinstance(x, (int, float)): a JSON number is an int or a float, and a
\* JSON boolean is a Python bool, which is a subclass of int.
IsIntOrFloat(x) == x \in {"number", "bool"}

\* embed(): [exc, val, posts]; exc is the type of the exception raised
\* ("none" when the embedding is returned), posts the requests sent.
embed(out) ==
  IF out.kind = "no_api_key"
  THEN [exc |-> "EnvironmentError", val |-> <<>>, posts |-> 0]
  ELSE IF out.kind = "connection_error"
  THEN [exc |-> "ConnectionError", val |-> <<>>, posts |-> 1]
  ELSE IF out.kind = "timeout"
  THEN [exc |-> "TimeoutError", val |-> <<>>, posts |-> 1]
  ELSE IF out.kind = "no_embedding"
  THEN [exc |-> "ValueError", val |-> <<>>, posts |-> 1]
  ELSE IF out.kind # "list"
  THEN [exc |-> "RuntimeError", val |-> <<>>, posts |-> 1]
  ELSE IF Len(out.embedding) # EMBEDDING_DIM
  THEN [exc |-> "RuntimeError", val |-> <<>>, posts |-> 1]
  ELSE IF ~(\A i \in 1..Len(out.embedding) : IsIntOrFloat(out.embedding[i]))
  THEN [exc |-> "RuntimeError", val |-> <<>>, posts |-> 1]
  ELSE [exc |-> "none", val |-> out.embedding, posts |-> 1]

\* The except clauses of search_and_generate_tool, in order: EnvironmentError
\* is OSError, of which ConnectionError and TimeoutError are subclasses.
tool_error_message(exc) ==
  IF exc \in {"EnvironmentError", "ConnectionError", "TimeoutError"}
  THEN "Configuration error"
  ELSE IF exc = "ValueError" THEN "Invalid data"
  ELSE "Unexpected error"

\* --------------------------------------------------------------- reranker
\* One entry of response.results.
Row(idx, score) == [index |-> idx, relevance_score |-> score]

Reverse(s) == [i \in 1..Len(s) |-> s[Len(s) + 1 - i]]

\* The documents of a batch of n, best first, for the relevance sc the
\* provider gives them (0-based indices, as the provider reports them).
Ranked(n, sc) == StableSortDesc([i \in 1..n |-> Row(i - 1, sc[i])], sc)

\* The result lists the provider may answer a request for k of n documents
\* with: the documented answer (the k best, best first), and answers that
\* break the contract: one result too many, one too few, worst first, an
\* index past the end, a negative index, a repeated index.
ResultLists(n, k, sc) ==
  LET r == Ranked(n, sc)
      c == Take(r, k)
  IN  { c,
        IF k < n THEN Take(r, k + 1) ELSE Append(c, c[1]),
        Take(r, k - 1),
        Reverse(c),
        [c EXCEPT ![1].index = n],
        [c EXCEPT ![1].index = 0 - 1],
        IF k >= 2 THEN [c EXCEPT ![2].index = c[1].index] ELSE c }

\* Outcome of self.client.rerank(...): it raises (timeout, error status,
\* unparsable body) or it returns results.
ProviderResponses(n, k) ==
  IF n = 0 THEN {[raise |-> FALSE, results |-> <<>>]}
  ELSE
  {[raise |-> TRUE, results |-> <<>>]}
    \cup { [raise |-> FALSE, results |-> d] :
             d \in UNION { ResultLists(n, k, sc) : sc \in [1..n -> Scores] } }

\* The outcomes of a request for each batch size and each number of results
\* asked for, computed once.
ResponsesOf ==
  [n \in 0..MAX_BATCH_SIZE, k \in 0..MAX_BATCH_SIZE |->
     IF n = 0 \/ (1 <= k /\ k <= n) THEN ProviderResponses(n, k) ELSE {}]

\* min(top_k or batch_size, batch_size)
actual_top_k(top_k, batch_size) ==
  Min(IF top_k = 0 THEN batch_size ELSE top_k, batch_size)

\* documents[result.index] of a Python list of n: defined for -n <= index < n.
PyIndexOk(idx, n) == idx >= 0 - n /\ idx < n

\* The 1-based position Python's documents[idx] reads.
PyIndex(idx, n) == IF idx < 0 THEN n + idx + 1 ELSE idx + 1

\* The loop over response.results: a copy of the indexed document with
\* cohere_score and rerank_position set.
MapResults(documents, results) ==
  [i \in 1..Len(results) |->
     [documents[PyIndex(results[i].index, Len(documents))]
        EXCEPT !.cohere_score = results[i].relevance_score,
               !.rerank_position = i]]

\* The document preparation loop of rerank_batch, which runs before the try
\* block: doc.get('content', '') is None for a null content, and
\* truncate_document(None) raises AttributeError on None.split().
PrepRaises(documents) ==
  \E i \in 1..Len(documents) : documents[i].content = "null"

\* Whether the try block of rerank_batch raises for this response.
TryRaises(documents, resp) ==
  resp.raise \/ \E i \in 1..Len(resp.results) :
                   ~PyIndexOk(resp.results[i].index, Len(documents))

\* rerank_batch whose except branch returns [] instead of the documents.
rerank_batch_drops_on_failure(documents, top_k, resp) ==
  IF documents = <<>> THEN [exc |-> FALSE, val |-> <<>>]
  ELSE IF PrepRaises(documents) THEN [exc |-> TRUE, val |-> <<>>]
  ELSE IF TryRaises(documents, resp)
       THEN [exc |-> FALSE, val |-> <<>>]
       ELSE [exc |-> FALSE, val |-> MapResults(documents, resp.results)]

\* rerank_batch whose except branch returns the documents with a score of 0
\* and their position.
rerank_batch_annotates_fallback(documents, top_k, resp) ==
  IF documents = <<>> THEN [exc |-> FALSE, val |-> <<>>]
  ELSE IF PrepRaises(documents) THEN [exc |-> TRUE, val |-> <<>>]
  ELSE IF TryRaises(documents, resp)
       THEN [exc |-> FALSE,
             val |-> [i \in 1..actual_top_k(top_k, Len(documents)) |->
                        [documents[i] EXCEPT !.cohere_score = 0,
                                             !.rerank_position = i]]]
       ELSE [exc |-> FALSE, val |-> MapResults(documents, resp.results)]

\* The response slot of a rerank_batch call that raised before its request.
NotSent == [raise |-> FALSE, results |-> <<>>]

\* CohereReranker.rerank_batch: [exc, val].
rerank_batch(documents, top_k, resp) ==
  IF documents = <<>> THEN [exc |-> FALSE, val |-> <<>>]
  ELSE IF PrepRaises(documents) THEN [exc |-> TRUE, val |-> <<>>]
  ELSE IF TryRaises(documents, resp)
       THEN [exc |-> FALSE,
             val |-> Take(documents, actual_top_k(top_k, Len(documents)))]
       ELSE [exc |-> FALSE, val |-> MapResults(documents, resp.results)]

\* The except branch of rerank_job_descriptions returning nothing.
rerank_fallback_empty(similar_chunks, final_count) == <<>>

\* The except branch of rerank_job_descriptions.
rerank_fallback(similar_chunks, final_count) == Take(similar_chunks, final_count)

\* The fallback without its slice.
vector_fallback_unsliced(vector_results, final_count) == vector_results

\* The last statement of search_with_reranking.
vector_fallback(vector_results, final_count) == Take(vector_results, final_count)

\* The pre-filter cutting the list without sorting it first.
pre_filter_unsorted(documents, pre_filter_top_k) ==
  IF Len(documents) > pre_filter_top_k
  THEN Take(documents, pre_filter_top_k)
  ELSE documents

\* Step 1 of rerank_large_corpus.
pre_filter(documents, pre_filter_top_k) ==
  IF Len(documents) > pre_filter_top_k
  THEN Take(SortBySimilarityDesc(documents), pre_filter_top_k)
  ELSE documents

\* A variant of the single-batch request that asks for the per-batch count
\* of the multi-batch path.
single_batch_top_k_doubled(final_top_k) == Max(PER_BATCH_FLOOR, final_top_k * 2)

\* rerank_large_corpus, single batch: rerank_batch(query, documents, final_top_k).
single_batch_top_k(final_top_k) == final_top_k

\* A variant of the batch count that rounds down.
num_batches_floor(n) == n \div MAX_BATCH_SIZE

\* math.ceil(len(documents) / self.MAX_BATCH_SIZE)
num_batches(n) == (n + MAX_BATCH_SIZE - 1) \div MAX_BATCH_SIZE

\* The per-batch count without the doubling and the floor.
per_batch_top_k_final(final_top_k) == final_top_k

\* max(10, final_top_k * 2)
per_batch_top_k(final_top_k) == Max(PER_BATCH_FLOOR, final_top_k * 2)

\* Batches that begin on the last document of the batch before.
batch_of_overlapping(documents, i) ==
  SubSeq(documents, Max(1, i * MAX_BATCH_SIZE),
         Min((i + 1) * MAX_BATCH_SIZE, Len(documents)))

\* documents[start_idx:end_idx] of batch i (0-based).
batch_of(documents, i) ==
  SubSeq(documents, i * MAX_BATCH_SIZE + 1,
         Min((i + 1) * MAX_BATCH_SIZE, Len(documents)))

\* The final ranking without the sort: the first results of the first batch.
final_results_unsorted(all, final_top_k) == Take(all, final_top_k)

\* The final ranking sorted ascending and then reversed ([::-1] instead of
\* reverse=True): descending, with equal scores in reverse order.
final_results_ties_reversed(all, final_top_k) ==
  Take(SortByScoreDesc(Reverse(all)), final_top_k)

\* The final ranking sorted without reverse=True: lowest score first.
final_results_ascending(all, final_top_k) ==
  Take(Reverse(SortByScoreDesc(all)), final_top_k)

\* The final ranking across all batch results.
final_results(all, final_top_k) == Take(SortByScoreDesc(all), final_top_k)

\* ------------------------------------------------------------------ state
VARIABLES
  pc,              \* "idle", "embed", "vsearch", "construct", "batch", "done"
  entry,           \* the function the caller invoked
  final_count,     \* final_count / final_top_k
  use_reranking,
  corpus_size,
  match_count,     \* count handed to the vector search
  pre_filter_top_k,
  embed_out,       \* outcome of embed(): "none", "ok", "fail"
  store_out,       \* outcome of the match_jobs RPC: "none", "raise", "empty", "data"
  construct_out,   \* outcome of import + CohereReranker(): "none", "ok", ...
  similar_chunks,  \* vector_results / similar_chunks / the caller's documents
  documents,       \* documents of rerank_large_corpus after the pre-filter
  batch_i,         \* loop index i of _rerank_multiple_batches
  all_reranked,
  vcalls,          \* match_count of every vector store request issued
  calls,           \* every rerank_batch call on a non-empty batch: its request,
                   \* whether it was sent, the response and the value returned
  result,          \* the value returned to the caller
  query_embedding, \* the vector embed() returned
  embed_posts,     \* requests posted to the embedding provider
  error,           \* the error handed to the caller: exception type or message
  embed_resp,      \* what embed() met: an element of EmbedOutcomes
  prev,            \* the previous, completed invocation (NoRun when none)
  request,         \* title, department and requirements of the query
  search_text,     \* the text built from the request
  sanitized_text,  \* the text posted to the embedding provider
  doc_texts,       \* the document texts prepared for a reranker request
  query,           \* the query handed to rerank_large_corpus
  raised           \* an exception escaped to the caller

vars == <<pc, entry, final_count, use_reranking, corpus_size, match_count,
          pre_filter_top_k, embed_out, store_out, construct_out,
          similar_chunks, documents, batch_i, all_reranked, vcalls, calls,
          result, query_embedding, embed_posts, error, embed_resp, prev,
          request, search_text, sanitized_text, doc_texts, query, raised>>

FinalCounts == 1..MaxFinal

InitialRetrievals == {1, DEFAULT_INITIAL_RETRIEVAL}

PreFilterChoices == 1..MaxDocs

\* The request of a run whose text is not followed.
NoRequest == [title |-> <<>>, department |-> <<>>, requirements |-> <<>>]

\* No invocation has completed yet.
NoRun ==
  [entry |-> "none", final_count |-> NoVal, use_reranking |-> FALSE,
   corpus_size |-> NoVal, match_count |-> NoVal, pre_filter_top_k |-> NoVal,
   similar_chunks |-> <<>>, embed_resp |-> [kind |-> "none", embedding |-> <<>>],
   store_out |-> "none", construct_out |-> "none", calls |-> <<>>, vcalls |-> <<>>,
   result |-> <<>>, raised |-> FALSE, error |-> "none"]

FirstRun == prev.entry = "none"

\* The function name is invoked: any function the first time, the same
\* function the second time.
Invoked(name) == IF FirstRun THEN TRUE ELSE prev.entry = name

\* The values an argument ranges over: all of S the first time, the value
\* of the first invocation the second time.
Again(S, v) == IF FirstRun THEN S ELSE {v}

Init ==
  /\ pc = "idle"
  /\ entry = "none"
  /\ final_count = NoVal
  /\ use_reranking = FALSE
  /\ corpus_size = NoVal
  /\ match_count = NoVal
  /\ pre_filter_top_k = NoVal
  /\ embed_out = "none"
  /\ store_out = "none"
  /\ construct_out = "none"
  /\ similar_chunks = <<>>
  /\ documents = <<>>
  /\ batch_i = 0
  /\ all_reranked = <<>>
  /\ vcalls = <<>>
  /\ calls = <<>>
  /\ result = <<>>
  /\ query_embedding = <<>>
  /\ embed_posts = 0
  /\ error = "none"
  /\ embed_resp = [kind |-> "none", embedding |-> <<>>]
  /\ prev = NoRun
  /\ request = NoRequest
  /\ search_text = <<>>
  /\ sanitized_text = <<>>
  /\ doc_texts = <<>>
  /\ query = <<>>
  /\ raised = FALSE

\* ----------------------------------------------------------- entry points
\* main.py search_and_generate up to the await of embed().
CallSearchAndGenerate ==
  /\ pc = "idle"
  /\ Invoked("search_and_generate")
  /\ \E u \in Again(BOOLEAN, prev.use_reranking),
        cs \in Again(CorpusSizes, prev.corpus_size) :
       /\ use_reranking' = u
       /\ corpus_size' = cs
  /\ entry' = "search_and_generate"
  /\ final_count' = MAIN_FINAL_COUNT
  /\ pc' = "embed"
  /\ UNCHANGED <<query, doc_texts, sanitized_text, search_text, request, prev, embed_resp, error,
                 embed_posts, query_embedding, match_count, pre_filter_top_k,
                 embed_out, store_out, construct_out, similar_chunks,
                 documents, batch_i, all_reranked, vcalls, calls, result,
                 raised>>

\* api.py search_and_generate_tool up to the call of embed().
CallSearchAndGenerateTool ==
  /\ pc = "idle"
  /\ Invoked("search_and_generate_tool")
  /\ entry' = "search_and_generate_tool"
  /\ use_reranking' = FALSE
  /\ final_count' = TOOL_MATCH_COUNT
  /\ pc' = "embed"
  /\ UNCHANGED <<query, doc_texts, sanitized_text, search_text, request, prev, embed_resp,
                 corpus_size, match_count, pre_filter_top_k, embed_out,
                 store_out, construct_out, similar_chunks, documents, batch_i,
                 all_reranked, vcalls, calls, result, query_embedding,
                 embed_posts, error, raised>>

\* embed(search_text) with a failure that is swallowed: the search goes on
\* with an empty vector.
Embed_swallows_failure ==
  /\ pc = "embed"
  /\ \E out \in Again(EmbedOutcomes, prev.embed_resp) :
       LET r == embed(out)
       IN  /\ embed_resp' = out
           /\ embed_out' = IF r.exc = "none" THEN "ok" ELSE "fail"
           /\ embed_posts' = embed_posts + r.posts
           /\ query_embedding' = r.val
           /\ error' = error
           /\ raised' = FALSE
           /\ pc' = "vsearch"
           /\ match_count' = IF entry = "search_and_generate_tool"
                              THEN TOOL_MATCH_COUNT
                              ELSE IF use_reranking
                              THEN pre_filter_count(corpus_size)
                              ELSE MAIN_MATCH_COUNT
  /\ UNCHANGED <<query, doc_texts, sanitized_text, search_text, request, prev, entry,
                 final_count, use_reranking, corpus_size, pre_filter_top_k,
                 store_out, construct_out, similar_chunks, documents, batch_i,
                 all_reranked, vcalls, calls, result>>

\* embed(search_text) returns a vector or raises.  In main.py the exception
\* escapes search_and_generate; in api.py it is caught and its message is
\* returned.  After a vector, main.py picks the search:
\* search_large_corpus_with_reranking (its pre-filter count) or
\* search_similar_chunks(query_embedding, match_count=5); api.py calls
\* search_similar_job_descriptions(query_embedding, match_count=5).
Embed ==
  /\ pc = "embed"
  /\ \E out \in Again(EmbedOutcomes, prev.embed_resp) :
       LET r == embed(out)
       IN  /\ embed_resp' = out
           /\ embed_posts' = embed_posts + r.posts
           /\ query_embedding' = r.val
           /\ IF r.exc # "none"
              THEN /\ embed_out' = "fail"
                   /\ pc' = "done"
                   /\ IF entry = "search_and_generate_tool"
                      THEN /\ raised' = FALSE
                           /\ error' = tool_error_message(r.exc)
                      ELSE /\ raised' = TRUE
                           /\ error' = r.exc
                   /\ UNCHANGED match_count
              ELSE /\ embed_out' = "ok"
                   /\ raised' = FALSE
                   /\ error' = error
                   /\ pc' = "vsearch"
                   /\ match_count' = IF entry = "search_and_generate_tool"
                                      THEN TOOL_MATCH_COUNT
                                      ELSE IF use_reranking
                                      THEN pre_filter_count(corpus_size)
                                      ELSE MAIN_MATCH_COUNT
  /\ UNCHANGED <<query, doc_texts, sanitized_text, search_text, request, prev, entry,
                 final_count, use_reranking, corpus_size, pre_filter_top_k,
                 store_out, construct_out, similar_chunks, documents, batch_i,
                 all_reranked, vcalls, calls, result>>

\* search_large_corpus_with_reranking up to the vector store request.
CallSearchLargeCorpus ==
  /\ pc = "idle"
  /\ Invoked("search_large_corpus_with_reranking")
  /\ \E cs \in Again(CorpusSizes, prev.corpus_size),
        fc \in Again(FinalCounts, prev.final_count) :
       /\ corpus_size' = cs
       /\ final_count' = fc
       /\ match_count' = pre_filter_count(cs)
  /\ entry' = "search_large_corpus_with_reranking"
  /\ use_reranking' = TRUE
  /\ pc' = "vsearch"
  /\ UNCHANGED <<query, doc_texts, sanitized_text, search_text, request, prev, embed_resp, error,
                 embed_posts, query_embedding, pre_filter_top_k, embed_out,
                 store_out, construct_out, similar_chunks, documents, batch_i,
                 all_reranked, vcalls, calls, result, raised>>

\* search_with_reranking up to the vector store request.
CallSearchWithReranking ==
  /\ pc = "idle"
  /\ Invoked("search_with_reranking")
  /\ \E fc \in Again(FinalCounts, prev.final_count),
        ir \in Again(InitialRetrievals, prev.match_count),
        u \in Again(BOOLEAN, prev.use_reranking) :
       /\ final_count' = fc
       /\ match_count' = ir
       /\ use_reranking' = u
  /\ entry' = "search_with_reranking"
  /\ pc' = "vsearch"
  /\ UNCHANGED <<query, doc_texts, sanitized_text, search_text, request, prev, embed_resp, error,
                 embed_posts, query_embedding, corpus_size, pre_filter_top_k,
                 embed_out, store_out, construct_out, similar_chunks,
                 documents, batch_i, all_reranked, vcalls, calls, result,
                 raised>>

\* The vector search step without the return on an empty candidate list.
VectorSearch_no_empty_check ==
  /\ pc = "vsearch"
  /\ \E out \in Again(StoreOutcomes(match_count),
                       [kind |-> prev.store_out,
                        data |-> IF prev.store_out = "data"
                                 THEN prev.similar_chunks ELSE <<>>]) :
       LET r == search_similar_job_descriptions(out)
       IN  /\ store_out' = out.kind
           /\ vcalls' = Append(vcalls, match_count)
           /\ IF r.exc
              THEN /\ pc' = "done"
                   /\ IF entry = "search_and_generate_tool"
                      THEN /\ raised' = FALSE
                           /\ error' = tool_error_message("Exception")
                      ELSE /\ raised' = TRUE
                           /\ error' = "Exception"
                   /\ UNCHANGED <<similar_chunks, result>>
              ELSE /\ raised' = FALSE
                   /\ error' = error
                   /\ similar_chunks' = r.val
                   /\ IF \/ entry = "search_and_generate_tool"
                         \/ entry = "search_and_generate" /\ ~use_reranking
                      THEN /\ result' = r.val
                           /\ pc' = "done"
                      ELSE IF use_reranking
                      THEN /\ result' = result
                           /\ pc' = "construct"
                      ELSE /\ result' = vector_fallback(r.val, final_count)
                           /\ pc' = "done"
  /\ UNCHANGED <<query, doc_texts, sanitized_text, search_text, request, prev, embed_resp,
                 embed_posts, query_embedding, entry, final_count,
                 use_reranking, corpus_size, match_count, pre_filter_top_k,
                 embed_out, construct_out, documents, batch_i, all_reranked,
                 calls>>

\* The vector store answers; search_similar_job_descriptions returns and its
\* caller runs on to its return or to the reranker's construction.
VectorSearch ==
  /\ pc = "vsearch"
  /\ \E out \in Again(StoreOutcomes(match_count),
                       [kind |-> prev.store_out,
                        data |-> IF prev.store_out = "data"
                                 THEN prev.similar_chunks ELSE <<>>]) :
       LET r == search_similar_job_descriptions(out)
       IN  /\ store_out' = out.kind
           /\ vcalls' = Append(vcalls, match_count)
           /\ IF r.exc
              THEN /\ pc' = "done"
                   /\ IF entry = "search_and_generate_tool"
                      THEN /\ raised' = FALSE
                           /\ error' = tool_error_message("Exception")
                      ELSE /\ raised' = TRUE
                           /\ error' = "Exception"
                   /\ UNCHANGED <<similar_chunks, result>>
              ELSE /\ raised' = FALSE
                   /\ error' = error
                   /\ similar_chunks' = r.val
                   /\ IF \/ entry = "search_and_generate_tool"
                         \/ entry = "search_and_generate" /\ ~use_reranking
                      THEN /\ result' = r.val
                           /\ pc' = "done"
                      ELSE IF r.val = <<>>
                      THEN /\ result' = <<>>
                           /\ pc' = "done"
                      ELSE IF use_reranking
                      THEN /\ result' = result
                           /\ pc' = "construct"
                      ELSE /\ result' = vector_fallback(r.val, final_count)
                           /\ pc' = "done"
  /\ UNCHANGED <<query, doc_texts, sanitized_text, search_text, request, prev, embed_resp,
                 embed_posts, query_embedding, entry, final_count,
                 use_reranking, corpus_size, match_count, pre_filter_top_k,
                 embed_out, construct_out, documents, batch_i, all_reranked,
                 calls>>

\* rerank_job_descriptions called directly, up to the reranker's construction.
CallRerankJobDescriptions ==
  /\ pc = "idle"
  /\ Invoked("rerank_job_descriptions")
  /\ \E chunks \in Again(DocLists, prev.similar_chunks),
        fc \in Again(FinalCounts, prev.final_count) :
       /\ similar_chunks' = chunks
       /\ final_count' = fc
       /\ IF chunks = <<>>
          THEN pc' = "done"
          ELSE pc' = "construct"
  /\ entry' = "rerank_job_descriptions"
  /\ use_reranking' = TRUE
  /\ UNCHANGED <<query, doc_texts, sanitized_text, search_text, request, prev, embed_resp, error,
                 embed_posts, query_embedding, corpus_size, match_count,
                 pre_filter_top_k, embed_out, store_out, construct_out,
                 documents, batch_i, all_reranked, vcalls, calls, result,
                 raised>>

\* rerank_job_descriptions handing over every candidate it was given.
pre_filter_cap_none(n) == n

\* pre_filter_top_k=min(1000, len(similar_chunks)) of rerank_job_descriptions.
pre_filter_cap(n) == Min(PRE_FILTER_CAP, n)

ConstructOutcomes ==
  IF entry = "rerank_job_descriptions"
  THEN {"ok", "no_api_key"}
  ELSE {"ok", "no_api_key", "import_error"}

\* The import of rerank_job_descriptions (search_with_reranking) and
\* CohereReranker() (rerank_job_descriptions); on success build_enhanced_query
\* and rerank_large_corpus up to the first reranker request.  ImportError
\* falls through to vector_results[:final_count]; the ValueError of a missing
\* key is caught by rerank_job_descriptions: similar_chunks[:final_count].
Construct ==
  /\ pc = "construct"
  /\ \E out \in Again(ConstructOutcomes, prev.construct_out) :
       /\ construct_out' = out
       /\ IF out = "ok"
          THEN /\ pre_filter_top_k' = pre_filter_cap(Len(similar_chunks))
               /\ documents' = pre_filter(similar_chunks, pre_filter_top_k')
               /\ pc' = "batch"
               /\ UNCHANGED result
          ELSE /\ result' = IF out = "import_error"
                            THEN vector_fallback(similar_chunks, final_count)
                            ELSE rerank_fallback(similar_chunks, final_count)
               /\ pc' = "done"
               /\ UNCHANGED <<pre_filter_top_k, documents>>
  /\ UNCHANGED <<query, doc_texts, sanitized_text, search_text, request, prev, embed_resp, error,
                 embed_posts, query_embedding, entry, final_count,
                 use_reranking, corpus_size, match_count, embed_out, store_out,
                 similar_chunks, batch_i, all_reranked, vcalls, calls, raised>>

\* rerank_large_corpus that rejects an empty document list with an error
\* instead of returning [].
CallRerankLargeCorpus_rejects_empty ==
  /\ pc = "idle"
  /\ Invoked("rerank_large_corpus")
  /\ \E docs \in Again(DocLists, prev.similar_chunks),
        ftk \in Again(FinalCounts, prev.final_count),
        pf \in Again(PreFilterChoices, prev.pre_filter_top_k) :
       /\ similar_chunks' = docs
       /\ final_count' = ftk
       /\ pre_filter_top_k' = pf
       /\ IF Len(docs) = 0
          THEN /\ pc' = "done"
               /\ raised' = TRUE
               /\ UNCHANGED documents
          ELSE /\ pc' = "batch"
               /\ raised' = FALSE
               /\ documents' = pre_filter(docs, pf)
  /\ entry' = "rerank_large_corpus"
  /\ use_reranking' = TRUE
  /\ construct_out' = "ok"
  /\ UNCHANGED <<query, doc_texts, sanitized_text, search_text, request, prev, embed_resp, error,
                 embed_posts, query_embedding, corpus_size, match_count,
                 embed_out, store_out, batch_i, all_reranked, vcalls, calls,
                 result>>

\* CohereReranker.rerank_large_corpus called directly, up to the first
\* reranker request.
CallRerankLargeCorpus ==
  /\ pc = "idle"
  /\ Invoked("rerank_large_corpus")
  /\ \E docs \in Again(DocLists, prev.similar_chunks),
        ftk \in Again(FinalCounts, prev.final_count),
        pf \in Again(PreFilterChoices, prev.pre_filter_top_k) :
       /\ similar_chunks' = docs
       /\ final_count' = ftk
       /\ pre_filter_top_k' = pf
       /\ IF Len(docs) = 0
          THEN /\ pc' = "done"
               /\ UNCHANGED documents
          ELSE /\ pc' = "batch"
               /\ documents' = pre_filter(docs, pf)
  /\ entry' = "rerank_large_corpus"
  /\ use_reranking' = TRUE
  /\ construct_out' = "ok"
  /\ UNCHANGED <<query, doc_texts, sanitized_text, search_text, request, prev, embed_resp, error,
                 embed_posts, query_embedding, corpus_size, match_count,
                 embed_out, store_out, batch_i, all_reranked, vcalls, calls,
                 result, raised>>

\* A loop that stays on the batch it has just reranked.
next_batch_repeats(batch_idx) == batch_idx

\* for batch_idx in range(num_batches): the batch after batch_idx.
next_batch(batch_idx) == batch_idx + 1

\* One reranker request and everything up to the next one: on the single-batch
\* path rerank_batch(query, documents, final_top_k) and the return; on the
\* multi-batch path batch i of _rerank_multiple_batches and, after the last
\* batch, the final ranking.  An exception out of rerank_batch would escape
\* rerank_large_corpus and be caught by rerank_job_descriptions.
RerankBatch ==
  /\ pc = "batch"
  /\ LET single == Len(documents) <= MAX_BATCH_SIZE
         batch == IF single THEN documents ELSE batch_of(documents, batch_i)
         top_k == IF single THEN single_batch_top_k(final_count)
                  ELSE per_batch_top_k(final_count)
         last == single \/ next_batch(batch_i) = num_batches(Len(documents))
     IN  \E resp \in IF PrepRaises(batch) THEN {NotSent}
                      ELSE ResponsesOf[Len(batch),
                                       actual_top_k(top_k, Len(batch))] :
           LET r == rerank_batch(batch, top_k, resp)
           IN  /\ IF FirstRun \/ Len(calls) >= Len(prev.calls) THEN TRUE
                  ELSE resp = prev.calls[Len(calls) + 1].resp
               /\ calls' = IF batch = <<>> THEN calls
                            ELSE Append(calls,
                                   [documents |-> batch, top_k |-> top_k,
                                    sent_top_k |-> actual_top_k(top_k, Len(batch)),
                                    sent |-> ~PrepRaises(batch),
                                    resp |-> resp, out |-> r.val])
               /\ IF r.exc
                  THEN /\ pc' = "done"
                       /\ IF entry = "rerank_large_corpus"
                          THEN /\ raised' = TRUE
                               /\ error' = "AttributeError"
                               /\ UNCHANGED result
                          ELSE /\ raised' = FALSE
                               /\ error' = error
                               /\ result' = rerank_fallback(similar_chunks, final_count)
                       /\ UNCHANGED <<batch_i, all_reranked>>
                  ELSE /\ raised' = FALSE
                       /\ error' = error
                       /\ batch_i' = next_batch(batch_i)
                       /\ all_reranked' = IF single THEN all_reranked
                                          ELSE all_reranked \o r.val
                       /\ IF last
                          THEN /\ pc' = "done"
                               /\ result' = IF single THEN r.val
                                            ELSE final_results(all_reranked', final_count)
                          ELSE /\ pc' = "batch"
                               /\ UNCHANGED result
  /\ UNCHANGED <<query, doc_texts, sanitized_text, search_text, request, prev, embed_resp,
                 embed_posts, query_embedding, entry, final_count,
                 use_reranking, corpus_size, match_count, pre_filter_top_k,
                 embed_out, store_out, construct_out, similar_chunks,
                 documents, vcalls>>

Next ==
  \/ CallSearchAndGenerate
  \/ CallSearchAndGenerateTool
  \/ Embed
  \/ CallSearchLargeCorpus
  \/ CallSearchWithReranking
  \/ VectorSearch
  \/ CallRerankJobDescriptions
  \/ Construct
  \/ CallRerankLargeCorpus
  \/ RerankBatch

Spec == Init /\ [][Next]_vars

\* The steps after an await: the awaited call has returned, raised or timed
\* out and the coroutine runs on to its next await or to its return.
Resume == Embed \/ VectorSearch \/ Construct \/ RerankBatch

\* The event loop resumes a coroutine whose awaited call has ended, so a
\* step after an await that can be taken is taken.  Whether an entry point
\* is called at all is left to the caller.
SpecLive == Init /\ [][Next]_vars /\ WF_vars(Resume)

\* ------------------------------------------------------- two invocations
\* What is kept of a completed invocation: its arguments, what the external
\* services did, and what it handed back.
Snapshot ==
  [entry |-> entry, final_count |-> final_count, use_reranking |-> use_reranking,
   corpus_size |-> corpus_size, match_count |-> match_count,
   pre_filter_top_k |-> pre_filter_top_k, similar_chunks |-> similar_chunks,
   embed_resp |-> embed_resp, store_out |-> store_out,
   construct_out |-> construct_out, calls |-> calls, vcalls |-> vcalls,
   result |-> result, raised |-> raised, error |-> error]

\* A second invocation that finds the all_reranked list of the first, as it
\* would were the list kept on the reranker or in the module.
Restart_keeps_all_reranked ==
  /\ pc = "done"
  /\ FirstRun
  /\ prev' = Snapshot
  /\ pc' = "idle"
  /\ entry' = "none"
  /\ final_count' = NoVal
  /\ use_reranking' = FALSE
  /\ corpus_size' = NoVal
  /\ match_count' = NoVal
  /\ pre_filter_top_k' = NoVal
  /\ embed_out' = "none"
  /\ store_out' = "none"
  /\ construct_out' = "none"
  /\ similar_chunks' = <<>>
  /\ documents' = <<>>
  /\ batch_i' = 0
  /\ all_reranked' = all_reranked
  /\ vcalls' = <<>>
  /\ calls' = <<>>
  /\ result' = <<>>
  /\ query_embedding' = <<>>
  /\ embed_posts' = 0
  /\ error' = "none"
  /\ embed_resp' = [kind |-> "none", embedding |-> <<>>]
  /\ raised' = FALSE
  /\ UNCHANGED <<query, doc_texts, request, search_text, sanitized_text>>

\* The caller invokes the same function again after it returned or raised.
\* Nothing of an invocation outlives it: every value is a local of the
\* functions or of a CohereReranker constructed per invocation; the modules
\* keep no cache, counter or result list.
Restart ==
  /\ pc = "done"
  /\ FirstRun
  /\ prev' = Snapshot
  /\ pc' = "idle"
  /\ entry' = "none"
  /\ final_count' = NoVal
  /\ use_reranking' = FALSE
  /\ corpus_size' = NoVal
  /\ match_count' = NoVal
  /\ pre_filter_top_k' = NoVal
  /\ embed_out' = "none"
  /\ store_out' = "none"
  /\ construct_out' = "none"
  /\ similar_chunks' = <<>>
  /\ documents' = <<>>
  /\ batch_i' = 0
  /\ all_reranked' = <<>>
  /\ vcalls' = <<>>
  /\ calls' = <<>>
  /\ result' = <<>>
  /\ query_embedding' = <<>>
  /\ embed_posts' = 0
  /\ error' = "none"
  /\ embed_resp' = [kind |-> "none", embedding |-> <<>>]
  /\ raised' = FALSE
  /\ UNCHANGED <<query, doc_texts, request, search_text, sanitized_text>>

NextTwice == Next \/ Restart

\* Two invocations in a row with the same arguments, the external services
\* answering the second as they answered the first.
SpecTwice == Init /\ [][NextTwice]_vars

\* ------------------------------------------------------------ search text
\* A string is the sequence of its characters: a letter, the space, and NUL
\* for a control character (ord < 32, not one of \n \r \t).
Chars == {"a", " ", "NUL"}

Strings(n) == UNION { [1..k -> Chars] : k \in 0..n }

\* Titles, departments and requirement lists of callers.
QueryRequests ==
  [title : Strings(MaxTextLen), department : Strings(MaxTextLen),
   requirements : UNION { [1..k -> {<<>>, <<"a">>}] : k \in 0..MaxReqs }]

\* sep.join(parts) of Python.
RECURSIVE join(_, _)
join(sep, parts) ==
  IF parts = <<>> THEN <<>>
  ELSE IF Len(parts) = 1 THEN parts[1]
  ELSE parts[1] \o sep \o join(sep, Tail(parts))

\* f"{title} {department} {' '.join(requirements)}".
search_text_of(title, department, requirements) ==
  title \o <<" ">> \o department \o <<" ">> \o join(<<" ">>, requirements)

\* not text or not text.strip(): empty, or nothing but whitespace.
IsBlank(text) == \A i \in 1..Len(text) : text[i] = " "

\* ''.join(char for char in text if ord(char) >= 32 or char in '\n\r\t').
sanitize(text) == LET Kept(c) == c # "NUL" IN SelectSeq(text, Kept)

\* The caller's request, as SpecText starts.
InitText ==
  /\ request \in QueryRequests
  /\ search_text = <<>>
  /\ sanitized_text = <<>>
  /\ pc = "idle"
  /\ entry = "none"
  /\ final_count = NoVal
  /\ use_reranking = FALSE
  /\ corpus_size = NoVal
  /\ match_count = NoVal
  /\ pre_filter_top_k = NoVal
  /\ embed_out = "none"
  /\ store_out = "none"
  /\ construct_out = "none"
  /\ similar_chunks = <<>>
  /\ documents = <<>>
  /\ batch_i = 0
  /\ all_reranked = <<>>
  /\ vcalls = <<>>
  /\ calls = <<>>
  /\ result = <<>>
  /\ query_embedding = <<>>
  /\ embed_posts = 0
  /\ error = "none"
  /\ embed_resp = [kind |-> "none", embedding |-> <<>>]
  /\ prev = NoRun
  /\ doc_texts = <<>>
  /\ query = <<>>
  /\ raised = FALSE

\* search_and_generate and search_and_generate_tool build search_text.
BuildSearchText ==
  /\ pc = "idle"
  /\ search_text' = search_text_of(request.title, request.department,
                                   request.requirements)
  /\ pc' = "embed"
  /\ UNCHANGED <<query, doc_texts, entry, final_count, use_reranking, corpus_size, match_count,
                 pre_filter_top_k, embed_out, store_out, construct_out,
                 similar_chunks, documents, batch_i, all_reranked, vcalls, calls,
                 result, query_embedding, embed_posts, error, embed_resp, prev,
                 request, sanitized_text, raised>>

\* embed(search_text) up to its request: a blank or too long text raises
\* ValueError; otherwise the sanitized text is posted.
PostSearchText ==
  /\ pc = "embed"
  /\ IF IsBlank(search_text) \/ Len(search_text) > MAX_TEXT_CHARS
     THEN /\ raised' = TRUE
          /\ error' = "ValueError"
          /\ pc' = "done"
          /\ UNCHANGED <<sanitized_text, embed_posts>>
     ELSE /\ sanitized_text' = sanitize(search_text)
          /\ embed_posts' = embed_posts + 1
          /\ pc' = "query"
          /\ UNCHANGED <<raised, error>>
  /\ UNCHANGED <<query, doc_texts, entry, final_count, use_reranking, corpus_size, match_count,
                 pre_filter_top_k, embed_out, store_out, construct_out,
                 similar_chunks, documents, batch_i, all_reranked, vcalls, calls,
                 result, query_embedding, embed_resp, prev, request, search_text>>

\* CohereReranker.build_enhanced_query: the literal parts of the template
\* are single elements of the sequence.
build_enhanced_query(title, department, requirements) ==
  <<"Current 2024 job posting for ">> \o title \o <<" position in ">>
    \o department \o <<" department.\n">>
    \o (IF requirements # <<>>
        THEN <<"Must have: ">> \o join(<<",", " ">>, requirements)
        ELSE <<"Open to various technical backgrounds">>)
    \o <<"\n\nLooking for job descriptions with: ... match the role requirements.">>

\* rerank_job_descriptions builds the query it hands to rerank_large_corpus
\* (the embedding, the vector search and the candidates are not followed).
BuildEnhancedQuery ==
  /\ pc = "query"
  /\ query' = build_enhanced_query(request.title, request.department,
                                   request.requirements)
  /\ pc' = "done"
  /\ UNCHANGED <<entry, final_count, use_reranking, corpus_size, match_count,
                 pre_filter_top_k, embed_out, store_out, construct_out,
                 similar_chunks, documents, batch_i, all_reranked, vcalls, calls,
                 result, query_embedding, embed_posts, error, embed_resp, prev,
                 request, search_text, sanitized_text, doc_texts, raised>>

NextText == BuildSearchText \/ PostSearchText \/ BuildEnhancedQuery

\* The text of a request from the caller to the embedding provider.
SpecText == InitText /\ [][NextText]_vars

\* ---------------------------------------------------- document truncation
\* The index of the first space of text, or Len(text) + 1.
FirstSpace(text) ==
  IF \E i \in 1..Len(text) : text[i] = " "
  THEN CHOOSE i \in 1..Len(text) :
         text[i] = " " /\ \A j \in 1..(i - 1) : text[j] # " "
  ELSE Len(text) + 1

\* text.split(): the maximal runs of non-whitespace characters.
RECURSIVE split(_)
split(text) ==
  IF text = <<>> THEN <<>>
  ELSE IF Head(text) = " " THEN split(Tail(text))
  ELSE <<SubSeq(text, 1, FirstSpace(text) - 1)>>
         \o split(SubSeq(text, FirstSpace(text), Len(text)))

\* The marker '...'.
Ellipsis == <<".", ".", ".">>

\* truncate_document comparing with < instead of <=.
truncate_document_strict(text, max_length) ==
  IF Len(split(text)) < max_length THEN text
  ELSE join(<<" ">>, Take(split(text), max_length)) \o Ellipsis

\* CohereReranker.truncate_document.
truncate_document(text, max_length) ==
  IF Len(split(text)) <= max_length THEN text
  ELSE join(<<" ">>, Take(split(text), max_length)) \o Ellipsis

\* The contents of the documents whose text is followed.
DocContents == Strings(MaxContentLen)

\* One candidate with a content, as SpecTruncate starts.
InitTruncate ==
  /\ request = NoRequest
  /\ search_text = <<>>
  /\ sanitized_text = <<>>
  /\ pc = "idle"
  /\ entry = "none"
  /\ final_count = NoVal
  /\ use_reranking = FALSE
  /\ corpus_size = NoVal
  /\ match_count = NoVal
  /\ pre_filter_top_k = NoVal
  /\ embed_out = "none"
  /\ store_out = "none"
  /\ construct_out = "none"
  /\ similar_chunks \in { <<[Doc(1, 1) EXCEPT !.content = c]>> : c \in DocContents }
  /\ documents = <<>>
  /\ batch_i = 0
  /\ all_reranked = <<>>
  /\ vcalls = <<>>
  /\ calls = <<>>
  /\ result = <<>>
  /\ query_embedding = <<>>
  /\ embed_posts = 0
  /\ error = "none"
  /\ embed_resp = [kind |-> "none", embedding |-> <<>>]
  /\ prev = NoRun
  /\ doc_texts = <<>>
  /\ query = <<>>
  /\ raised = FALSE

\* rerank_batch on the candidate: the document texts are prepared, the
\* provider answers as documented or fails, and the annotated copy or, after
\* a failure, the candidate itself is returned.
PrepareAndRerank ==
  /\ pc = "idle"
  /\ doc_texts' = [i \in 1..Len(similar_chunks) |->
                     truncate_document(similar_chunks[i].content, MAX_DOC_LENGTH)]
  /\ \E resp \in {[raise |-> TRUE, results |-> <<>>]}
                    \cup {[raise |-> FALSE, results |-> <<Row(0, sc)>>] : sc \in Scores} :
       result' = IF TryRaises(similar_chunks, resp)
                 THEN Take(similar_chunks,
                           actual_top_k(Len(similar_chunks), Len(similar_chunks)))
                 ELSE MapResults(similar_chunks, resp.results)
  /\ pc' = "done"
  /\ UNCHANGED <<query, entry, final_count, use_reranking, corpus_size, match_count,
                 pre_filter_top_k, embed_out, store_out, construct_out,
                 similar_chunks, documents, batch_i, all_reranked, vcalls, calls,
                 query_embedding, embed_posts, error, embed_resp, prev, request,
                 search_text, sanitized_text, query, raised>>

NextTruncate == PrepareAndRerank

\* The content of a candidate from the caller to the reranker request and
\* to the returned sequence.
SpecTruncate == InitTruncate /\ [][NextTruncate]_vars

\* ================================================================ claims
PipelineEntries ==
  {"search_and_generate", "search_large_corpus_with_reranking", "search_with_reranking"}

Candidates ==
  [id : 1..MaxDocs, similarity : Similarities, content : Contents,
   cohere_score : {NoVal} \cup Scores, rerank_position : {NoVal} \cup Nat]

Ids(s) == { s[i].id : i \in 1..Len(s) }

\* The reranker request answered as documented: exactly the requested number
\* of results, distinct indices of the document list, best first.
WellFormed(call) ==
  LET rs == call.resp.results
      n == Len(call.documents)
  IN  /\ ~call.resp.raise
      /\ Len(rs) = call.sent_top_k
      /\ \A i \in 1..Len(rs) : rs[i].index >= 0 /\ rs[i].index < n
      /\ \A i \in 1..Len(rs) : \A j \in 1..Len(rs) :
           i < j => /\ rs[i].index # rs[j].index
                    /\ rs[i].relevance_score >= rs[j].relevance_score

\* C1: in a run of the retrieval pipeline whose embedding step succeeded, no
\* exception escapes to the caller and the run ends with a list of
\* candidates, whatever the vector store, the construction of the reranker
\* and each reranker request do (raise, answer, answer malformed).
C1_NoExceptionEscapes ==
  (entry \in PipelineEntries /\ embed_out # "fail") =>
     /\ ~raised
     /\ pc = "done" => result \in Seq(Candidates)

\* A pipeline run that ended although its reranker request raised.
C1_Witness ==
  /\ pc = "done"
  /\ entry \in PipelineEntries
  /\ calls # <<>>
  /\ calls[1].resp.raise
  /\ ~raised

\* C2: the sequence a pipeline run returns has at most final_count elements,
\* for every behaviour of the external services.
C2_LengthAtMostFinalCount ==
  (pc = "done" /\ entry \in PipelineEntries /\ ~raised) => Len(result) <= final_count

\* C3: the count handed to the vector search by the large-corpus entry is
\* 1500 for a hint >= 15000, 800 for 5000 <= hint < 15000 and 500 below 5000.
C3_AdaptivePreFilter ==
  (/\ \/ entry = "search_large_corpus_with_reranking"
      \/ entry = "search_and_generate" /\ use_reranking /\ embed_out = "ok"
   /\ pc # "idle") =>
     /\ corpus_size >= 15000 => match_count = 1500
     /\ (corpus_size >= 5000 /\ corpus_size < 15000) => match_count = 800
     /\ corpus_size < 5000 => match_count = 500
     /\ \A i \in 1..Len(vcalls) : vcalls[i] = match_count

\* The vector store was asked for 800 records on the hint 5000 and for 1500
\* on the hint 15000 (one run each; this is the run with hint 5000).
C3_Witness ==
  /\ entry = "search_large_corpus_with_reranking"
  /\ corpus_size = 5000
  /\ vcalls = <<800>>

\* C4: when the vector store request raises, the run ends with the empty
\* sequence, no exception escapes and no reranker request is issued.
C4_StoreFailureGivesEmpty ==
  store_out = "raise" =>
     /\ pc = "done"
     /\ result = <<>>
     /\ ~raised
     /\ calls = <<>>
     /\ construct_out = "none"

\* A run with reranking enabled whose vector store request raised.
C4_Witness ==
  /\ store_out = "raise"
  /\ use_reranking
  /\ pc = "done"

CallFailed(call) ==
  \/ call.resp.raise
  \/ \E j \in 1..Len(call.resp.results) :
       call.resp.results[j].index >= Len(call.documents)

\* Every reranker request of the run succeeded as documented or failed.
AllCallsOkOrRaised ==
  \A i \in 1..Len(calls) : WellFormed(calls[i]) \/ CallFailed(calls[i])

\* rerank_large_corpus ran to its return.
RerankReturned ==
  /\ pc = "done"
  /\ construct_out = "ok"
  /\ ~raised
  /\ \A i \in 1..Len(calls) : calls[i].sent

MultiBatch == Len(documents) > MAX_BATCH_SIZE

\* C6: the sequence rerank_large_corpus returns is ordered by non-increasing
\* relevance score (a candidate without one counting as 0, as in the code's
\* sort key) and has at most final_top_k elements, on the single-batch and on
\* the multi-batch path, whichever of its reranker requests succeed or fail.
C6_OrderedAndBounded ==
  (RerankReturned /\ AllCallsOkOrRaised) =>
     /\ Len(result) <= final_count
     /\ \A i \in 1..Len(result) : \A j \in 1..Len(result) :
          i < j => ScoreKey(result[i]) >= ScoreKey(result[j])

\* A multi-batch run whose first request raised and whose second succeeded,
\* returning a scored candidate ahead of an unscored one.
C6_Witness ==
  /\ RerankReturned
  /\ MultiBatch
  /\ Len(calls) = 2
  /\ calls[1].resp.raise
  /\ WellFormed(calls[2])
  /\ Len(result) = 2
  /\ result[1].cohere_score = 1
  /\ result[2].cohere_score = NoVal

\* The elements of the returned sequence that come from the batch of request b.
FromBatch(b) ==
  LET InBatch(c) == c.id \in Ids(calls[b].documents)
  IN  SelectSeq(result, InBatch)

\* C7 (as amended): when a reranker request of a multi-batch rerank raises,
\* every batch still gets its request, and the failed batch's candidates are
\* kept: those of them in the returned sequence are a prefix of the batch in
\* the order it had in the candidate list, unannotated, and all of them are
\* returned when the result has room left.
C7_FailedBatchKept ==
  (RerankReturned /\ MultiBatch) =>
     /\ Len(calls) = num_batches(Len(documents))
     /\ \A b \in 1..Len(calls) :
          calls[b].resp.raise =>
            /\ FromBatch(b) = Take(calls[b].documents, Len(FromBatch(b)))
            /\ Len(result) < final_count => FromBatch(b) = calls[b].documents

\* C7 (as claimed): the same, and the failed batch's candidates stand in the
\* returned sequence in descending order of their similarity.
C7_FailedBatchBySimilarity ==
  (RerankReturned /\ MultiBatch) =>
     /\ Len(calls) = num_batches(Len(documents))
     /\ \A b \in 1..Len(calls) :
          calls[b].resp.raise =>
            /\ FromBatch(b) = Take(calls[b].documents, Len(FromBatch(b)))
            /\ Len(result) < final_count => FromBatch(b) = calls[b].documents
            /\ SortedBySimilarity(FromBatch(b))

\* A multi-batch run whose first request raised, whose second succeeded, and
\* whose result holds two candidates of the failed batch.
C7_Witness ==
  /\ RerankReturned
  /\ MultiBatch
  /\ Len(calls) = 2
  /\ calls[1].resp.raise
  /\ WellFormed(calls[2])
  /\ Len(FromBatch(1)) = 2

\* C8: whenever the provider call of rerank_batch fails (it raises, or its
\* response names an index outside the document list), rerank_batch returns
\* its input documents unchanged, in input order, cut to min(top_k, number
\* of documents).
C8_FailureReturnsInput ==
  \A i \in 1..Len(calls) :
    LET c == calls[i]
        n == Len(c.documents)
    IN  (\/ c.resp.raise
         \/ \E j \in 1..Len(c.resp.results) :
              c.resp.results[j].index < 0 \/ c.resp.results[j].index >= n)
          => c.out = Take(c.documents, Min(c.top_k, n))

\* C9: when every reranker request of the run succeeded, the candidate at
\* position i of the returned sequence has rerank_position i, on the
\* single-batch path and after the fusion of the multi-batch path.
C9_RankPositions ==
  (RerankReturned /\ calls # <<>> /\ \A i \in 1..Len(calls) : WellFormed(calls[i])) =>
     \A i \in 1..Len(result) : result[i].rerank_position = i

\* C10: rerank_large_corpus and rerank_job_descriptions given an empty
\* candidate list return the empty list, for any final count, and issue no
\* reranker request.
C10_EmptyCandidates ==
  (/\ entry \in {"rerank_large_corpus", "rerank_job_descriptions"}
   /\ similar_chunks = <<>>) =>
     /\ pc = "done"
     /\ result = <<>>
     /\ calls = <<>>
     /\ ~raised

\* rerank_large_corpus was called with no candidates and the largest final count.
C10_Witness ==
  /\ entry = "rerank_large_corpus"
  /\ similar_chunks = <<>>
  /\ final_count = MaxFinal
  /\ pc = "done"

\* C11 (as amended): rerank_large_corpus given at least one and at most
\* MAX_BATCH_SIZE candidates (after the pre-filter) calls rerank_batch
\* exactly once, on all of them, with top_k = final_top_k; rerank_batch
\* clamps the count it sends to the provider to the number of documents.
C11_SingleBatchOneCall ==
  (RerankReturned /\ ~MultiBatch /\ documents # <<>>) =>
     /\ Len(calls) = 1
     /\ calls[1].documents = documents
     /\ calls[1].top_k = final_count
     /\ calls[1].sent_top_k = Min(final_count, Len(documents))

\* C11 (as claimed): every rerank_large_corpus run with at most
\* MAX_BATCH_SIZE candidates, the empty list included, issues exactly one
\* reranker call, with top_k = final_top_k.
C11_AnySingleBatchOneCall ==
  (RerankReturned /\ ~MultiBatch) =>
     /\ Len(calls) = 1
     /\ calls[1].top_k = final_count

\* A single-batch run of rerank_large_corpus on exactly MAX_BATCH_SIZE
\* candidates, more than final_top_k.
C11_Witness ==
  /\ RerankReturned
  /\ entry = "rerank_large_corpus"
  /\ Len(documents) = MAX_BATCH_SIZE
  /\ final_count < Len(documents)
  /\ Len(calls) = 1

\* The least number of batches of at most MAX_BATCH_SIZE candidates that
\* hold n candidates, that is, n / MAX_BATCH_SIZE rounded up.
CeilBatches(n) ==
  CHOOSE m \in 1..n : m * MAX_BATCH_SIZE >= n /\ (m - 1) * MAX_BATCH_SIZE < n

\* C12: rerank_large_corpus given n > MAX_BATCH_SIZE candidates (after the
\* pre-filter) cuts them into ceil(n / MAX_BATCH_SIZE) consecutive batches
\* of at most MAX_BATCH_SIZE candidates and issues one reranker request per
\* batch, in order; when every request is answered with the requested number
\* of results or fails, the returned sequence has exactly
\* min(final_top_k, n) elements.
C12_BatchesAndLength ==
  (RerankReturned /\ MultiBatch) =>
     LET n == Len(documents)
     IN  /\ Len(calls) = CeilBatches(n)
         /\ \A i \in 1..Len(calls) :
              calls[i].documents =
                SubSeq(documents, (i - 1) * MAX_BATCH_SIZE + 1,
                       Min(i * MAX_BATCH_SIZE, n))
         /\ AllCallsOkOrRaised => Len(result) = Min(final_count, n)

\* A multi-batch run of two answered requests, the second on a smaller
\* batch, that returned final_top_k of its candidates.
C12_Witness ==
  /\ RerankReturned
  /\ MultiBatch
  /\ Len(calls) = 2
  /\ WellFormed(calls[1])
  /\ WellFormed(calls[2])
  /\ Len(calls[2].documents) < MAX_BATCH_SIZE
  /\ Len(result) = final_count
  /\ final_count = MaxFinal

\* C13: when embed() fails (no API key, provider unreachable, timeout, error
\* status, malformed response), the run ends there with the error handed to
\* the caller (the exception escapes search_and_generate; the tool returns
\* its message), at most one request was posted to the embedding provider,
\* and neither the vector store nor the reranker is called.
C13_EmbeddingFailureIsFatal ==
  /\ embed_posts <= 1
  /\ embed_out = "fail" =>
       /\ pc = "done"
       /\ error # "none"
       /\ entry = "search_and_generate" => raised
       /\ query_embedding = <<>>
       /\ result = <<>>
       /\ vcalls = <<>>
       /\ store_out = "none"
       /\ calls = <<>>
       /\ construct_out = "none"

\* A run of search_and_generate with reranking enabled whose embedding
\* request was sent and failed.
C13_Witness ==
  /\ entry = "search_and_generate"
  /\ use_reranking
  /\ embed_out = "fail"
  /\ embed_posts = 1
  /\ error = "RuntimeError"
  /\ raised

\* C14: every count that reaches the vector store RPC lies within [1, 100].
C14_MatchCountWithinBounds ==
  \A i \in 1..Len(vcalls) : vcalls[i] >= 1 /\ vcalls[i] <= 100

\* C15: embed() returns a vector, and the vector search runs, only when the
\* provider's embedding is a list of exactly EMBEDDING_DIM JSON numbers.
C15_OnlyNumericVectorsAccepted ==
  /\ embed_out = "ok" =>
       /\ Len(query_embedding) = EMBEDDING_DIM
       /\ \A i \in 1..Len(query_embedding) : query_embedding[i] = "number"
  /\ (entry \in {"search_and_generate", "search_and_generate_tool"} /\ vcalls # <<>>)
       => embed_out = "ok"

\* C16: no record without a content string is among the candidates handed
\* to the reranker or in the sequence a run returns.
C16_IncompleteRecordsDropped ==
  /\ \A i \in 1..Len(documents) : documents[i].content = "text"
  /\ \A i \in 1..Len(calls) : \A j \in 1..Len(calls[i].documents) :
       calls[i].documents[j].content = "text"
  /\ \A i \in 1..Len(result) : result[i].content = "text"

\* The reranking step of the run was skipped: the reranker could not be
\* imported or constructed, or rerank_large_corpus raised.
RerankSkipped ==
  \/ construct_out \in {"no_api_key", "import_error"}
  \/ \E i \in 1..Len(calls) : ~calls[i].sent

JoinedBySingleSpaces(parts) == join(<<" ">>, parts)

\* C19: the search text is the title, the department and the requirements,
\* in order, joined by single spaces, for every requirements list, the empty
\* one included, and it is this text that is posted to the embedding
\* provider.
C19_SearchTextJoined ==
  /\ pc \in {"embed", "done"} =>
       search_text =
         JoinedBySingleSpaces(<<request.title, request.department>>
                                \o request.requirements)
  /\ (pc = "done" /\ embed_posts = 1) => sanitized_text = search_text

\* The elements of s whose sort key is v, in the order of s.
WithScore(s, v) == LET Has(c) == ScoreKey(c) = v IN SelectSeq(s, Has)

\* The batch (the number of the rerank_batch call) a candidate was in.
BatchOf(c) == CHOOSE b \in 1..Len(calls) : c.id \in Ids(calls[b].documents)

\* C20 (as amended): in the fused multi-batch result, candidates with equal
\* relevance score keep the order they have in all_reranked, the
\* concatenation of the batch results: candidates of different batches stand
\* in the order of their batches, that is, of the candidate list after the
\* pre-filter, and candidates of one batch in the order of that batch's
\* result (the provider's response, or the batch itself after a failure).
C20_TiesKeepConcatenationOrder ==
  (RerankReturned /\ MultiBatch) =>
     /\ \A v \in {0} \cup Scores :
          WithScore(result, v) =
            Take(WithScore(all_reranked, v), Len(WithScore(result, v)))
     /\ \A i \in 1..Len(result) : \A j \in 1..Len(result) :
          (i < j /\ ScoreKey(result[i]) = ScoreKey(result[j]))
            => BatchOf(result[i]) <= BatchOf(result[j])

\* C20 (as claimed): in the fused multi-batch result, of two candidates with
\* equal relevance score the one that stood first in the candidate list
\* given to rerank_large_corpus stands first (a candidate's id is its
\* position in that list), every reranker request being answered as
\* documented.
C20_TiesKeepInputOrder ==
  (/\ RerankReturned
   /\ MultiBatch
   /\ \A b \in 1..Len(calls) : WellFormed(calls[b])) =>
     \A i \in 1..Len(result) : \A j \in 1..Len(result) :
       (i < j /\ ScoreKey(result[i]) = ScoreKey(result[j]))
         => result[i].id < result[j].id

\* A fused result of two answered requests whose two candidates have the
\* same relevance score and come from different batches.
C20_Witness ==
  /\ RerankReturned
  /\ MultiBatch
  /\ Len(calls) = 2
  /\ WellFormed(calls[1])
  /\ WellFormed(calls[2])
  /\ Len(result) = 2
  /\ result[1].cohere_score = result[2].cohere_score
  /\ BatchOf(result[1]) = 1
  /\ BatchOf(result[2]) = 2

\* The orders in which n batches can be processed.
BatchOrders(n) ==
  { p \in [1..n -> 1..n] : \A i \in 1..n : \A j \in 1..n : i # j => p[i] # p[j] }

\* all_reranked when the batches are processed in the order p: the batch
\* results (each the value rerank_batch returned for that batch) extended in
\* that order.
RECURSIVE AllRerankedInOrder(_, _)
AllRerankedInOrder(p, k) ==
  IF k = 0 THEN <<>>
  ELSE AllRerankedInOrder(p, k - 1) \o calls[p[k]].out

\* The final ranking when the batches are processed in the order p.
FusedInOrder(p) ==
  final_results(AllRerankedInOrder(p, Len(calls)), final_count)

\* No two results of different batches have the same sort key (a candidate
\* of a failed batch has none and sorts as 0).
NoTiesAcrossBatches ==
  \A a \in 1..Len(calls) : \A b \in 1..Len(calls) :
    a # b =>
      \A i \in 1..Len(calls[a].out) : \A j \in 1..Len(calls[b].out) :
        ScoreKey(calls[a].out[i]) # ScoreKey(calls[b].out[j])

\* C21 (as amended): when no two results of different batches have equal
\* relevance score, the final ranking of a multi-batch rerank is the same
\* for every order in which the batches are processed, failed batches
\* included.
C21_OrderIndependentWithoutTies ==
  (RerankReturned /\ MultiBatch /\ NoTiesAcrossBatches) =>
     \A p \in BatchOrders(Len(calls)) : FusedInOrder(p) = result

\* C21 (as claimed): the final ranking of a multi-batch rerank is the same
\* for every order in which the batches are processed, also when results of
\* different batches have equal relevance scores, every reranker request
\* being answered as documented or failing.
C21_OrderIndependent ==
  (RerankReturned /\ MultiBatch /\ AllCallsOkOrRaised) =>
     \A p \in BatchOrders(Len(calls)) : FusedInOrder(p) = result

\* A multi-batch run whose second batch outscored the first, so that the
\* final ranking starts with a candidate of the second batch and goes on
\* with one of the first.
C21_Witness ==
  /\ RerankReturned
  /\ MultiBatch
  /\ NoTiesAcrossBatches
  /\ Len(calls) = 2
  /\ Len(result) = 2
  /\ result[1].id \in Ids(calls[2].documents)
  /\ result[2].id \in Ids(calls[1].documents)

\* The number of documents of the first k rerank_batch calls of the run.
RECURSIVE DocumentsSent(_)
DocumentsSent(k) ==
  IF k = 0 THEN 0 ELSE DocumentsSent(k - 1) + Len(calls[k].documents)

\* rerank_large_corpus has pre-filtered its candidates.
PreFiltered == construct_out = "ok" /\ pc \in {"batch", "done"}

\* C22: when rerank_large_corpus is given more candidates than
\* pre_filter_top_k, it keeps exactly pre_filter_top_k of them, each of a
\* similarity at least that of every discarded one, before its first
\* reranker request; when given at most pre_filter_top_k it keeps all in
\* the given order; the documents of all reranker requests of the run
\* together never number more than pre_filter_top_k.
C22_PreFilterKeepsMostSimilar ==
  PreFiltered =>
     /\ Len(similar_chunks) > pre_filter_top_k =>
          /\ Len(documents) = pre_filter_top_k
          /\ Ids(documents) \subseteq Ids(similar_chunks)
          /\ Cardinality(Ids(documents)) = pre_filter_top_k
          /\ \A i \in 1..Len(documents) :
               documents[i] = similar_chunks[documents[i].id]
          /\ \A i \in 1..Len(documents) : \A j \in 1..Len(similar_chunks) :
               similar_chunks[j].id \notin Ids(documents)
                 => documents[i].similarity >= similar_chunks[j].similarity
     /\ Len(similar_chunks) <= pre_filter_top_k => documents = similar_chunks
     /\ DocumentsSent(Len(calls)) <= pre_filter_top_k
     /\ \A c \in 1..Len(calls) :
          Ids(calls[c].documents) \subseteq Ids(documents)

\* rerank_large_corpus was given four candidates, the last more similar
\* than the first, with a pre-filter count of two, and has returned.
C22_Witness ==
  /\ entry = "rerank_large_corpus"
  /\ pc = "done"
  /\ Len(similar_chunks) = MaxDocs
  /\ pre_filter_top_k < Len(similar_chunks)
  /\ pre_filter_top_k > 1
  /\ similar_chunks[1].similarity < similar_chunks[Len(similar_chunks)].similarity
  /\ Len(calls) = 1
  /\ calls[1].documents = documents

\* The documents of the first k rerank_batch calls, one batch after another.
RECURSIVE BatchesJoined(_)
BatchesJoined(k) ==
  IF k = 0 THEN <<>> ELSE BatchesJoined(k - 1) \o calls[k].documents

\* C23: on the multi-batch path the batches handed to rerank_batch are
\* consecutive slices of the candidate list: joined in order they are a
\* prefix of it while the loop runs and the whole list when it has returned,
\* no candidate is in two batches, every batch but the last has exactly
\* MAX_BATCH_SIZE candidates and the last between one and MAX_BATCH_SIZE,
\* and every call is made with top_k = max(PER_BATCH_FLOOR, 2 * final_top_k),
\* which rerank_batch clamps to the size of the batch.
C23_BatchesPartitionCandidates ==
  (construct_out = "ok" /\ MultiBatch) =>
     /\ BatchesJoined(Len(calls)) = Take(documents, DocumentsSent(Len(calls)))
     /\ RerankReturned => BatchesJoined(Len(calls)) = documents
     /\ \A a \in 1..Len(calls) : \A b \in 1..Len(calls) :
          a # b => Ids(calls[a].documents) \cap Ids(calls[b].documents) = {}
     /\ \A b \in 1..Len(calls) :
          /\ Len(calls[b].documents) >= 1
          /\ Len(calls[b].documents) <= MAX_BATCH_SIZE
          /\ (b < Len(calls) \/ pc = "batch")
               => Len(calls[b].documents) = MAX_BATCH_SIZE
          /\ calls[b].top_k = Max(PER_BATCH_FLOOR, 2 * final_count)
          /\ calls[b].sent_top_k = Min(calls[b].top_k, Len(calls[b].documents))

\* A multi-batch run that has returned, whose last batch is smaller than
\* the first and whose first request was clamped to the batch size.
C23_Witness ==
  /\ RerankReturned
  /\ MultiBatch
  /\ Len(calls) = 2
  /\ Len(calls[2].documents) < Len(calls[1].documents)
  /\ calls[1].sent_top_k < calls[1].top_k

\* The text t without its last three characters.
BeforeEllipsis(t) == SubSeq(t, 1, Len(t) - Len(Ellipsis))

\* C24: the text prepared for the reranker from a content of at most
\* MAX_DOC_LENGTH words is the content unchanged; from a longer content it
\* is the first MAX_DOC_LENGTH words of the content, separated by single
\* spaces, followed by the marker '...'; the candidate returned (annotated,
\* or as is after a failed request) has the content it was given, and so has
\* the caller's candidate.
C24_TruncationToWords ==
  pc = "done" =>
     LET content == similar_chunks[1].content
         words == split(content)
         sent == doc_texts[1]
     IN  /\ Len(words) <= MAX_DOC_LENGTH => sent = content
         /\ Len(words) > MAX_DOC_LENGTH =>
              /\ Len(sent) > Len(Ellipsis)
              /\ SubSeq(sent, Len(sent) - Len(Ellipsis) + 1, Len(sent)) = Ellipsis
              /\ split(BeforeEllipsis(sent)) = Take(words, MAX_DOC_LENGTH)
              /\ BeforeEllipsis(sent)[1] # " "
              /\ BeforeEllipsis(sent)[Len(BeforeEllipsis(sent))] # " "
              /\ \A i \in 1..(Len(BeforeEllipsis(sent)) - 1) :
                   ~(BeforeEllipsis(sent)[i] = " " /\ BeforeEllipsis(sent)[i + 1] = " ")
         /\ Len(result) = 1
         /\ result[1].content = content

\* A content of three words was prepared and the candidate returned with a
\* relevance score.
C24_Witness ==
  /\ pc = "done"
  /\ doc_texts # <<>>
  /\ Len(split(similar_chunks[1].content)) > MAX_DOC_LENGTH
  /\ result[1].cohere_score = 1

\* The vector search of the run returned no candidates (the store answered
\* with none, or its request failed).
NoCandidates == store_out \in {"empty", "raise"}

\* C25: the step in which the vector search returns no candidates is the
\* last of the run: it ends the run with the empty sequence, and in that run
\* no reranker is imported or constructed and no reranker request is
\* issued.
C25_EmptySearchReturnsAtOnce ==
  /\ [](NoCandidates =>
          /\ pc = "done"
          /\ result = <<>>
          /\ ~raised
          /\ construct_out = "none"
          /\ calls = <<>>
          /\ Len(vcalls) = 1)
  /\ [][(pc = "vsearch" /\ similar_chunks' = <<>>) =>
          (pc' = "done" /\ result' = <<>> /\ NoCandidates')]_vars

\* A run with reranking enabled whose vector search returned no candidates.
C25_Witness ==
  /\ store_out = "empty"
  /\ entry = "search_large_corpus_with_reranking"
  /\ use_reranking
  /\ pc = "done"

\* C26: the query handed to rerank_large_corpus, and from there to every
\* reranker request, is the search text of the request, the text posted to
\* the embedding provider.
C26_QueryIsSearchText ==
  (pc = "done" /\ query # <<>>) =>
     /\ query = search_text
     /\ query = sanitized_text

\* A run of the pipeline ended with the exception of its embedding step.
FatalEmbeddingError == raised /\ embed_out = "fail"

\* C27: every invocation that was made eventually completes, a pipeline
\* invocation with a list of candidates or with the exception of its
\* embedding step (a failed request ends only that request); and at every
\* moment no more reranker requests have been issued than there are batches,
\* the k-th of them for the k-th batch, so no batch is repeated.
C27_InvocationCompletes ==
  /\ (pc # "idle") ~>
        ( /\ pc = "done"
          /\ entry \in PipelineEntries =>
                \/ FatalEmbeddingError
                \/ ~raised /\ embed_out # "fail" /\ result \in Seq(Candidates) )
  /\ []( /\ Len(calls) <= num_batches(Len(documents))
         /\ \A k \in 1..Len(calls) :
               calls[k].documents =
                 (IF Len(documents) <= MAX_BATCH_SIZE THEN documents
                  ELSE batch_of(documents, k - 1)) )

\* A multi-batch run that completed although one of its requests failed.
C27_Witness ==
  /\ pc = "done"
  /\ ~raised
  /\ Len(calls) = 2
  /\ CallFailed(calls[1])
  /\ result # <<>>

\* The candidate carries a relevance score, a rank position.
HasScore(c) == c.cohere_score # NoVal
HasRank(c) == c.rerank_position # NoVal

\* The reranker request was sent and answered, and every result of the
\* answer was taken over.
CallSucceeded(call) == call.sent /\ ~CallFailed(call)

\* The candidate is one of those a successful reranker request returned.
FromSuccessfulCall(c) ==
  \E k \in 1..Len(calls) :
     /\ CallSucceeded(calls[k])
     /\ \E j \in 1..Len(calls[k].out) : calls[k].out[j] = c

\* C28: in the output of every run a candidate carries a relevance score
\* and a rank position if and only if a successful reranker request returned
\* it, so the candidates of a fallback path (failed batch, reranker
\* unavailable, reranking not used) carry neither; and the candidates the
\* caller holds, the vector search's and the pre-filtered ones, never carry
\* them: reranking annotates copies.
C28_ScoredIffReranked ==
  /\ \A i \in 1..Len(result) :
       /\ HasScore(result[i]) <=> HasRank(result[i])
       /\ HasScore(result[i]) <=> FromSuccessfulCall(result[i])
  /\ \A i \in 1..Len(similar_chunks) :
       ~HasScore(similar_chunks[i]) /\ ~HasRank(similar_chunks[i])
  /\ \A i \in 1..Len(documents) :
       ~HasScore(documents[i]) /\ ~HasRank(documents[i])

\* A finished run of two batches, one failed and one successful, whose
\* output holds a candidate with a score and a candidate without.
C28_Witness ==
  /\ pc = "done"
  /\ Len(calls) = 2
  /\ \E k \in 1..2 : CallFailed(calls[k])
  /\ \E k \in 1..2 : CallSucceeded(calls[k])
  /\ \E i, j \in 1..Len(result) : HasScore(result[i]) /\ ~HasScore(result[j])
  /\ \A i \in 1..Len(similar_chunks) : ~HasScore(similar_chunks[i])

\* The reranker request failed, or its answer names distinct documents of
\* the batch by indices 0..n-1.
DistinctInRange(call) ==
  \/ ~call.sent
  \/ CallFailed(call)
  \/ LET rs == call.resp.results
     IN  /\ \A i \in 1..Len(rs) :
              rs[i].index >= 0 /\ rs[i].index < Len(call.documents)
         /\ \A i \in 1..Len(rs) : \A j \in 1..Len(rs) :
              i # j => rs[i].index # rs[j].index

\* The candidate as the vector search returned it.
Unranked(c) == [c EXCEPT !.cohere_score = NoVal, !.rerank_position = NoVal]

\* C29: every candidate of the output is one of the candidates the vector
\* search of the run returned, and no id appears twice in the output, as
\* long as every answered reranker request named distinct documents of its
\* batch (the ids of the vector search are unique); on the single-batch
\* path, the multi-batch path and the fallback paths alike.
C29_OutputFromVectorSearch ==
  (\A k \in 1..Len(calls) : DistinctInRange(calls[k])) =>
     /\ \A i \in 1..Len(result) :
          \E j \in 1..Len(similar_chunks) : Unranked(result[i]) = similar_chunks[j]
     /\ \A i \in 1..Len(result) : \A j \in 1..Len(result) :
          i # j => result[i].id # result[j].id

\* A finished multi-batch run with an answered and a failed request and
\* several candidates in its output.
C29_Witness ==
  /\ pc = "done"
  /\ MultiBatch
  /\ Len(calls) = 2
  /\ \A k \in 1..2 : DistinctInRange(calls[k])
  /\ CallSucceeded(calls[1])
  /\ CallFailed(calls[2])
  /\ Len(result) >= 2
  /\ Cardinality(Ids(similar_chunks)) = Len(similar_chunks)

\* A finished pipeline run whose output is the answer of its reranker
\* request.
C29_WitnessPipeline ==
  /\ pc = "done"
  /\ entry \in PipelineEntries
  /\ Len(calls) = 1
  /\ CallSucceeded(calls[1])
  /\ DistinctInRange(calls[1])
  /\ Len(result) >= 2

\* C30: in a run that reaches the reranker through rerank_job_descriptions
\* (every entry point but rerank_large_corpus itself) the pre-filter cap is
\* min(PRE_FILTER_CAP, number of candidates) with PRE_FILTER_CAP =
\* MAX_BATCH_SIZE, so at most MAX_BATCH_SIZE candidates remain after the
\* pre-filter and at most one reranker request is issued, whatever the
\* corpus size hint; more than one batch occurs only when
\* rerank_large_corpus is called directly with a larger cap.
C30_PipelineIsSingleBatch ==
  /\ PRE_FILTER_CAP = MAX_BATCH_SIZE
  /\ entry # "rerank_large_corpus" =>
       /\ pre_filter_top_k # NoVal =>
            pre_filter_top_k = Min(PRE_FILTER_CAP, Len(similar_chunks))
       /\ Len(documents) <= MAX_BATCH_SIZE
       /\ Len(calls) <= 1
  /\ (MultiBatch \/ Len(calls) > 1) =>
       /\ entry = "rerank_large_corpus"
       /\ pre_filter_top_k > MAX_BATCH_SIZE

\* A finished run of search_large_corpus_with_reranking whose vector search
\* returned more candidates than a batch holds and whose reranker request
\* was for the candidates left by the pre-filter.
C30_Witness ==
  /\ pc = "done"
  /\ entry = "search_large_corpus_with_reranking"
  /\ Len(similar_chunks) > MAX_BATCH_SIZE
  /\ pre_filter_top_k = MAX_BATCH_SIZE
  /\ Len(calls) = 1
  /\ calls[1].documents = documents
  /\ Len(documents) = MAX_BATCH_SIZE

====
